---------------------------- MODULE Spec2Model ----------------------------
(***************************************************************************)
(* evowarepy: microplate addressing (evoware/plates.py, class PlateFormat) *)
(* and the worklist generator (evoware/worklist.py, class Worklist).       *)
(*                                                                         *)
(* Two state machines share this module.  SpecPlate drives one PlateFormat *)
(* object through construction and its conversion methods; SpecWorklist    *)
(* drives one Worklist object through its emission methods, close() and    *)
(* the with-statement protocol.                                            *)
(*                                                                         *)
(* Strings that are parsed or formatted by the code (well coordinates such *)
(* as 'H12') are sequences of one-character strings, so that str(),        *)
(* int() and the regular expression are modelled by what they do.          *)
(***************************************************************************)
EXTENDS Integers, Sequences, FiniteSets, TLC

VARIABLES
    pf,         \* the PlateFormat object: [n, nx, ny], or NoPlate
    pcall,      \* the last PlateFormat call: [op, tag, a, b, c, s]
    pres,       \* its outcome: [kind, a, b, s]
    out,        \* Worklist._output_str: the lines written so far
    target_fh,  \* Worklist._target_fh: "fh" or "None"
    sink,       \* the file object given as fh: [data, closed, closes]
    ctor,       \* the constructor's arguments: [fh, liquidClass]
    scope,      \* position relative to a with block
    raised,     \* the exception in flight in the with block, or "none"
    caller,     \* what the caller of the with statement last received
    last,       \* the last Worklist call and whether it returned
    before,     \* the content of the buffer when that call started
    plateformat,\* Worklist._plateformat
    rows,       \* Worklist.rows
    columns,    \* Worklist.columns
    mw,         \* the frame of a multidiswithflush call in progress
    ret,        \* what the last call returned: <<>> for None, <<v>> for v
    calls       \* the number of commands issued to the writer

plateVars == <<pf, pcall, pres>>
cmdVars   == <<plateformat, rows, columns, mw, ret, calls>>
wlVars    == <<out, target_fh, sink, ctor, scope, raised, caller, last, before,
               plateformat, rows, columns, mw, ret, calls>>
vars      == <<pf, pcall, pres, out, target_fh, sink, ctor, scope, raised,
               caller, last, before, plateformat, rows, columns, mw, ret, calls>>

(***************************************************************************)
(* Bounds of the model.                                                    *)
(***************************************************************************)
\* Construction is tried for the six standard formats and for 1..MaxWells.
MaxWells == 12
\* Explicit nx, ny range over -MaxDim..MaxDim (0: the argument is omitted).
MaxDim == 4
\* Integer positions are tried up to Margin beyond either end of a plate.
Margin == 2
\* The worklist buffer holds at most MaxLines lines.
MaxLines == 3
\* A writer is given at most MaxCalls commands in a row.
MaxCalls == 2
\* multidiswithflush is called with up to MaxDst destinations,
MaxDst == 3
\* a dispense volume in 1..MaxVolume and a tip volume in 1..MaxTip,
MaxVolume == 2
MaxTip == 4
\* and its while loop is followed for at most MaxCycles iterations.
MaxCycles == 4

(***************************************************************************)
(* Python arithmetic.                                                      *)
(***************************************************************************)
Abs(a) == IF a < 0 THEN -a ELSE a

\* a // b (floor division), b # 0
FloorDiv(a, b) == IF b > 0 THEN a \div b ELSE (-a) \div (-b)

\* a % b: the result has the sign of b
PyMod(a, b) == a - b * FloorDiv(a, b)

\* int(a / b): true division, then truncation towards zero
TruncDiv(a, b) ==
    LET q == Abs(a) \div Abs(b)
    IN  IF (a < 0) # (b < 0) THEN -q ELSE q

\* math.ceil(float(a) / b)
CeilDiv(a, b) == -FloorDiv(-a, b)

\* round(1.0 * a / b): to the nearest integer, a tie to the even one
PyRound(a, b) ==
    LET p == IF b < 0 THEN -a ELSE a
        d == Abs(b)
        q == p \div d
        r == p - q * d
    IN  IF 2 * r < d THEN q
        ELSE IF 2 * r > d THEN q + 1
        ELSE IF q % 2 = 0 THEN q ELSE q + 1

\* round(np.sqrt(3. / 2 * n)): the k with (k - 1/2)^2 <= 3n/2 < (k + 1/2)^2
\* (3n/2 is never of the form (k + 1/2)^2, so there is no tie)
RoundSqrt32(n) ==
    CHOOSE k \in 0..(n + 1) :
        /\ 4 * k * k - 4 * k + 1 <= 6 * n
        /\ 6 * n < 4 * k * k + 4 * k + 1

(***************************************************************************)
(* Characters, str() and int() on decimal numerals.                        *)
(***************************************************************************)
Digits == <<"0", "1", "2", "3", "4", "5", "6", "7", "8", "9">>

ascii_uppercase ==
    <<"A", "B", "C", "D", "E", "F", "G", "H", "I", "J", "K", "L", "M",
      "N", "O", "P", "Q", "R", "S", "T", "U", "V", "W", "X", "Y", "Z">>

ascii_lowercase ==
    <<"a", "b", "c", "d", "e", "f", "g", "h", "i", "j", "k", "l", "m",
      "n", "o", "p", "q", "r", "s", "t", "u", "v", "w", "x", "y", "z">>

Range(f) == {f[i] : i \in DOMAIN f}

IsDigit(c) == c \in Range(Digits)
IsLetter(c) == c \in Range(ascii_uppercase) \cup Range(ascii_lowercase)

\* the 0-based index of c in seq, -1 when absent (str.find)
Find(seq, c) ==
    IF c \in Range(seq) THEN (CHOOSE i \in DOMAIN seq : seq[i] = c) - 1 ELSE -1

\* str.upper() on one character
Upper(c) ==
    IF c \in Range(ascii_lowercase)
    THEN ascii_uppercase[Find(ascii_lowercase, c) + 1]
    ELSE c

RECURSIVE StrNat(_)
StrNat(k) ==
    IF k < 10 THEN <<Digits[k + 1]>>
    ELSE StrNat(k \div 10) \o <<Digits[(k % 10) + 1]>>

\* str(i) for an integer i
Str(i) == IF i < 0 THEN <<"-">> \o StrNat(-i) ELSE StrNat(i)

RECURSIVE ParseNat(_)
\* int(ds) for a non-empty sequence of digits
ParseNat(ds) ==
    IF Len(ds) = 1 THEN Find(Digits, ds[1])
    ELSE 10 * ParseNat(SubSeq(ds, 1, Len(ds) - 1)) + Find(Digits, ds[Len(ds)])

RECURSIVE DigitRun(_, _)
\* the longest run of digits of s that starts at index i ([0-9]+ is greedy)
DigitRun(s, i) ==
    IF i <= Len(s) /\ IsDigit(s[i]) THEN <<s[i]>> \o DigitRun(s, i + 1)
    ELSE <<>>

(***************************************************************************)
(* PlateFormat                                                             *)
(***************************************************************************)
NoPlate == [n |-> 0, nx |-> 0, ny |-> 0]

ALLOWED_PLATES == {6, 12, 24, 96, 384, 1536}

\* self.nx = int(nx or round(np.sqrt(3. / 2 * self.n)))
ResolveNx(n, nx) == IF nx # 0 THEN nx ELSE RoundSqrt32(n)

\* self.ny = int(ny or round(1.0 * n / self.nx))
ResolveNy(n, nx, ny) == IF ny # 0 THEN ny ELSE PyRound(n, ResolveNx(n, nx))

\* A faulty PlateFormat.__init__: the consistency check of lines 67-69 is
\* missing.  C3 must not hold of it.
PlateFormat_init_unchecked(n, nx, ny) ==
    [kind |-> "ok", n |-> n, nx |-> ResolveNx(n, nx), ny |-> ResolveNy(n, nx, ny)]

\* PlateFormat.__init__(n, nx, ny); nx = 0, ny = 0 stand for an omitted argument
PlateFormat_init(n, nx, ny) ==
    LET rx == ResolveNx(n, nx)
        ry == ResolveNy(n, nx, ny)
    IN  IF rx * ry # n
        THEN [kind |-> "PlateError", n |-> n, nx |-> rx, ny |-> ry]
        ELSE [kind |-> "ok", n |-> n, nx |-> rx, ny |-> ry]

\* results of the conversion methods
Ok(a, b, s)  == [kind |-> "ok", a |-> a, b |-> b, s |-> s]
Raise(e)     == [kind |-> e, a |-> 0, b |-> 0, s |-> <<>>]

\* PlateFormat.str2tuple(pos): ex_position.match(pos), anchored at the start
\* only; [m |-> FALSE] is the ('', None) of a failed match
str2tuple(s) ==
    IF Len(s) >= 2 /\ IsLetter(s[1]) /\ IsDigit(s[2])
    THEN [m |-> TRUE, letter |-> <<Upper(s[1])>>, number |-> ParseNat(DigitRun(s, 2))]
    ELSE IF Len(s) >= 1 /\ IsDigit(s[1])
    THEN [m |-> TRUE, letter |-> <<>>, number |-> ParseNat(DigitRun(s, 1))]
    ELSE [m |-> FALSE, letter |-> <<>>, number |-> 0]

\* the tail of human2int once letter and number are known
human2int_resolve(f, letter, number) ==
    LET r == IF letter # <<>>
             THEN (number - 1) * f.ny + (Find(ascii_uppercase, letter[1]) + 1)
             ELSE number
    IN  IF r > f.n THEN Raise("PlateError")
        ELSE IF r = 0 THEN Raise("PlateError")
        ELSE Ok(r, 0, <<>>)

\* PlateFormat.human2int(pos) for pos an int
human2int_int(f, i) == human2int_resolve(f, <<>>, i)

\* PlateFormat.human2int(pos) for pos a float, given in halves (h / 2):
\* int(pos) truncates towards zero
human2int_float(f, h) == human2int_resolve(f, <<>>, TruncDiv(h, 2))

\* PlateFormat.human2int(pos) for pos a str; a failed match leaves number
\* None, and None > self.n is a TypeError
human2int_str(f, s) ==
    LET t == str2tuple(s)
    IN  IF ~t.m THEN Raise("TypeError")
        ELSE human2int_resolve(f, t.letter, t.number)

\* PlateFormat.int2human(pos); string.ascii_uppercase[row] is an IndexError
\* outside -26..25 and counts from the end for a negative row
int2human(f, pos) ==
    LET col == TruncDiv(pos - 1, f.ny)
        row == PyMod(pos - 1, f.ny)
    IN  IF col + 1 > f.nx \/ row > f.ny THEN Raise("PlateError")
        ELSE IF row > 25 \/ row < -26 THEN Raise("IndexError")
        ELSE Ok(0, 0, <<ascii_uppercase[(IF row < 0 THEN row + 26 ELSE row) + 1]>>
                      \o Str(col + 1))

\* PlateFormat.gridindex2int(row, col)
gridindex2int(f, row, col) == (col * f.ny) + row + 1

\* PlateFormat.int2gridindex(cell_int): [row, col]
int2gridindex(f, cell_int) ==
    LET col == CeilDiv(cell_int, f.ny) - 1
        row_modulus == PyMod(cell_int, f.ny)
    IN  [row |-> IF row_modulus = 0 THEN 7 ELSE row_modulus - 1, col |-> col]

\* PlateFormat.human2index(pos) for pos a str
human2index(f, s) ==
    LET tecan_id == human2int_str(f, s)
    IN  IF tecan_id.kind # "ok" THEN tecan_id
        ELSE LET g == int2gridindex(f, tecan_id.a) IN Ok(g.row, g.col, <<>>)

RECURSIVE PyRange(_, _, _)
\* list(range(start, stop, step)), step # 0
PyRange(start, stop, step) ==
    IF (step > 0 /\ start < stop) \/ (step < 0 /\ start > stop)
    THEN <<start>> \o PyRange(start + step, stop, step)
    ELSE <<>>

\* list(filter(lambda x: x <= limit, xs))
FilterUpTo(xs, limit) == LET Keep(x) == x <= limit IN SelectSeq(xs, Keep)

\* PlateFormat.right_on_row(cell_int)
right_on_row(f, cell_int) ==
    LET end_cell == gridindex2int(f, int2gridindex(f, cell_int).row, f.nx)
    IN  FilterUpTo(PyRange(cell_int, end_cell + 1, f.ny), f.n)

\* A faulty PlateFormat.down_on_column: the range includes end_cell, the
\* first well of the next column.  C18 must not hold of it.
down_on_column_through(f, cell_int) ==
    LET end_cell == gridindex2int(f, f.ny, int2gridindex(f, cell_int).col)
    IN  PyRange(cell_int, end_cell + 1, 1)

\* PlateFormat.down_on_column(cell_int)
down_on_column(f, cell_int) ==
    LET end_cell == gridindex2int(f, f.ny, int2gridindex(f, cell_int).col)
    IN  PyRange(cell_int, end_cell, 1)

(***************************************************************************)
(* The PlateFormat state machine: one object is constructed, then its      *)
(* conversion methods are called with arguments in and around its range.   *)
(***************************************************************************)
NoCall == [op |-> "none", tag |-> "", a |-> 0, b |-> 0, c |-> 0, s |-> <<>>]
NoResult == [kind |-> "none", a |-> 0, b |-> 0, s |-> <<>>]

PCall(op, tag, a, b, c, s) ==
    [op |-> op, tag |-> tag, a |-> a, b |-> b, c |-> c, s |-> s]

\* the arguments construction is tried with
ConstructArgs ==
    {<<n, 0, 0>> : n \in ALLOWED_PLATES}
    \cup ((1..MaxWells) \X (-MaxDim..MaxDim) \X (-MaxDim..MaxDim))

IntPositions(f) == (-Abs(f.ny) - Margin)..(f.n + Margin)

FloatHalves(f) == (-Margin..(Margin + 1)) \cup ((2 * f.n - 1)..(2 * f.n + Margin))

Letters == Range(ascii_uppercase) \cup Range(ascii_lowercase)

\* strings the pattern does not match at all, or matches only in part
OddStrings ==
    {<<>>, <<"A">>, <<"A", "A", "1">>, <<"-", "1">>, <<" ", "1">>,
     <<"A", "1", "x">>, <<"1", "A">>, <<"0", "7">>}

HumanStrings(f) ==
    {<<l>> \o Str(k) : l \in Letters, k \in 0..(Abs(f.nx) + Margin)}
    \cup {Str(k) : k \in 0..(f.n + Margin)}
    \cup OddStrings

\* no call is in progress: the caller has taken the last result
Idle == pcall = NoCall

Construct ==
    /\ Idle
    /\ pf = NoPlate
    /\ \E args \in ConstructArgs :
         LET r == PlateFormat_init(args[1], args[2], args[3])
         IN  /\ pcall' = PCall("__init__", "", args[1], args[2], args[3], <<>>)
             /\ pres' = IF r.kind = "ok" THEN Ok(0, 0, <<>>) ELSE Raise(r.kind)
             /\ pf' = IF r.kind = "ok"
                      THEN [n |-> r.n, nx |-> r.nx, ny |-> r.ny]
                      ELSE pf
    /\ UNCHANGED wlVars

CallHuman2intInt ==
    /\ Idle
    /\ pf # NoPlate
    /\ \E i \in IntPositions(pf) :
         /\ pcall' = PCall("human2int", "int", i, 0, 0, <<>>)
         /\ pres' = human2int_int(pf, i)
    /\ UNCHANGED <<pf, wlVars>>

CallHuman2intFloat ==
    /\ Idle
    /\ pf # NoPlate
    /\ \E h \in FloatHalves(pf) :
         /\ pcall' = PCall("human2int", "float", h, 0, 0, <<>>)
         /\ pres' = human2int_float(pf, h)
    /\ UNCHANGED <<pf, wlVars>>

CallHuman2intStr ==
    /\ Idle
    /\ pf # NoPlate
    /\ \E s \in HumanStrings(pf) :
         /\ pcall' = PCall("human2int", "str", 0, 0, 0, s)
         /\ pres' = human2int_str(pf, s)
    /\ UNCHANGED <<pf, wlVars>>

CallInt2human ==
    /\ Idle
    /\ pf # NoPlate
    /\ \E p \in IntPositions(pf) :
         /\ pcall' = PCall("int2human", "int", p, 0, 0, <<>>)
         /\ pres' = int2human(pf, p)
    /\ UNCHANGED <<pf, wlVars>>

CallGridindex2int ==
    /\ Idle
    /\ pf # NoPlate
    /\ \E row \in 0..Abs(pf.ny), col \in 0..Abs(pf.nx) :
         /\ pcall' = PCall("gridindex2int", "int", row, col, 0, <<>>)
         /\ pres' = Ok(gridindex2int(pf, row, col), 0, <<>>)
    /\ UNCHANGED <<pf, wlVars>>

CallInt2gridindex ==
    /\ Idle
    /\ pf # NoPlate
    /\ \E p \in IntPositions(pf) :
         /\ pcall' = PCall("int2gridindex", "int", p, 0, 0, <<>>)
         /\ pres' = LET g == int2gridindex(pf, p) IN Ok(g.row, g.col, <<>>)
    /\ UNCHANGED <<pf, wlVars>>

CallHuman2index ==
    /\ Idle
    /\ pf # NoPlate
    /\ \E s \in HumanStrings(pf) :
         /\ pcall' = PCall("human2index", "str", 0, 0, 0, s)
         /\ pres' = human2index(pf, s)
    /\ UNCHANGED <<pf, wlVars>>

CallRight_on_row ==
    /\ Idle
    /\ pf # NoPlate
    /\ \E p \in IntPositions(pf) :
         /\ pcall' = PCall("right_on_row", "int", p, 0, 0, <<>>)
         /\ pres' = Ok(0, 0, right_on_row(pf, p))
    /\ UNCHANGED <<pf, wlVars>>

CallDown_on_column ==
    /\ Idle
    /\ pf # NoPlate
    /\ \E p \in IntPositions(pf) :
         /\ pcall' = PCall("down_on_column", "int", p, 0, 0, <<>>)
         /\ pres' = Ok(0, 0, down_on_column(pf, p))
    /\ UNCHANGED <<pf, wlVars>>

\* the caller takes the result (or catches the exception) and goes on
Return ==
    /\ ~Idle
    /\ pcall' = NoCall
    /\ pres' = NoResult
    /\ UNCHANGED <<pf, wlVars>>

NextPlate ==
    \/ Construct
    \/ Return
    \/ CallHuman2intInt
    \/ CallHuman2intFloat
    \/ CallHuman2intStr
    \/ CallInt2human
    \/ CallGridindex2int
    \/ CallInt2gridindex
    \/ CallHuman2index
    \/ CallRight_on_row
    \/ CallDown_on_column


(***************************************************************************)
(* Worklist                                                                *)
(*                                                                         *)
(* A line of the worklist is the sequence of its fields: the text written  *)
(* is the fields joined by ';' and ended by a line break, so 'W;' is       *)
(* <<"W", "">>.  An optional argument (liquidClass, tipMask) is <<>> for   *)
(* None and <<v>> for the value v.                                         *)
(***************************************************************************)
\* str(v) for the integer arguments of a worklist command
str(v) == ToString(v)

\* the outcome of a method: the lines it appended, or the exception it raised
Wrote(lines) == [ok |-> TRUE, exc |-> "none", lines |-> lines]
Raised(e)    == [ok |-> FALSE, exc |-> e, lines |-> <<>>]

\* Worklist._transfer_op(transferType, rackLabel, rackID, rackType, position,
\*                       tubeID, volume, liquidClass, tipMask)
\* dlc is self.defaultLiquidClass
_transfer_op(transferType, rackLabel, rackID, rackType, position, tubeID, volume, liquidClass, tipMask, dlc) ==
    IF rackLabel = "" /\ rackID = "" THEN Raised("WorklistException")
    ELSE
        LET lc1 == IF liquidClass = <<>> THEN dlc ELSE liquidClass
            lc  == IF lc1 = <<>> THEN "" ELSE lc1[1]
            fields == <<rackLabel, rackID, rackType, str(position), tubeID,
                        str(volume), lc>>
                      \o (IF tipMask = <<>> THEN <<>> ELSE <<str(tipMask[1])>>)
        IN  Wrote(<< <<transferType>> \o fields >>)

\* Worklist.aspirate(rackLabel, rackID, rackType, position, tubeID, volume,
\*                   liquidClass, tipMask); the arguments are the record a
aspirate(a, dlc) ==
    _transfer_op("A", a.rackID, a.rackLabel, a.rackType, a.position, a.tubeID,
                 a.volume, a.liquidClass, a.tipMask, dlc)

\* A faulty Worklist.dispense: the 'W;' is written before the D line.  C7
\* must not hold of it.
dispense_wash_first(a, wash, dlc) ==
    LET r == _transfer_op("D", a.rackID, a.rackLabel, a.rackType, a.position,
                          a.tubeID, a.volume, a.liquidClass, a.tipMask, dlc)
    IN  IF ~r.ok THEN r
        ELSE Wrote((IF wash THEN << <<"W", "">> >> ELSE <<>>) \o r.lines)

\* Worklist.dispense(rackLabel, rackID, rackType, position, tubeID, volume,
\*                   liquidClass, tipMask, wash)
dispense(a, wash, dlc) ==
    LET r == _transfer_op("D", a.rackID, a.rackLabel, a.rackType, a.position,
                          a.tubeID, a.volume, a.liquidClass, a.tipMask, dlc)
    IN  IF ~r.ok THEN r
        ELSE Wrote(r.lines \o (IF wash THEN << <<"W", "">> >> ELSE <<>>))

\* Worklist.wash(), Worklist.flush(), Worklist.B()
wash  == Wrote(<< <<"W", "">> >>)
flush == Wrote(<< <<"F", "">> >>)
B     == Wrote(<< <<"B", "">> >>)

\* the file object: fh.write(text), fh.close(); leaving "with fh:" closes it
fh_write(s, lines) == [s EXCEPT !.data = @ \o lines]
fh_close(s) == [s EXCEPT !.closed = TRUE, !.closes = @ + 1]

\* Worklist.close(): [fh, sink] after the call
close(fh, s) ==
    IF fh # "None"
    THEN [fh |-> "None", sink |-> fh_close(s)]
    ELSE [fh |-> fh, sink |-> s]

\* A faulty Worklist.__exit__: the sink is closed without the buffer being
\* written to it.  C10 must not hold of it.
exit_without_write(fh, s, text) ==
    LET s1 == IF fh # "None" THEN fh_close(s) ELSE s
        c  == close(fh, s1)
    IN  [fh |-> c.fh, sink |-> c.sink, ret |-> FALSE]

\* Worklist.__exit__(type, value, traceback): [fh, sink, ret] after the call;
\* ret is the value returned, which decides whether the exception is swallowed
__exit__(fh, s, text) ==
    LET s1 == IF fh # "None" THEN fh_close(fh_write(s, text)) ELSE s
        c  == close(fh, s1)
    IN  [fh |-> c.fh, sink |-> c.sink, ret |-> FALSE]

\* the default arguments of aspirate and dispense
NoArgs ==
    [rackLabel |-> "", rackID |-> "", rackType |-> "", position |-> 1,
     tubeID |-> "", volume |-> 0, liquidClass |-> <<>>, tipMask |-> <<>>]

(***************************************************************************)
(* Worklist: plate format, composite commands and free text.               *)
(***************************************************************************)
\* A faulty buffer: each write starts at position 0 again, as a StringIO
\* does after seek(0).  C17 must not hold of it.
_out_write_rewound(buf, lines) ==
    lines \o SubSeq(buf, Len(lines) + 1, Len(buf))

\* self._out.write(r): the buffer is an io.StringIO written at its end
_out_write(buf, lines) == buf \o lines

\* a method that raised e after it had written lines
RaisedAfter(e, lines) == [ok |-> FALSE, exc |-> e, lines |-> lines]

\* two statements in a row: the second runs only if the first returned
Then(r1, r2) ==
    IF ~r1.ok THEN r1
    ELSE IF r2.ok THEN Wrote(r1.lines \o r2.lines)
    ELSE RaisedAfter(r2.exc, r1.lines \o r2.lines)

PLATE_ROWS ==
    (6 :> 2) @@ (12 :> 3) @@ (24 :> 4) @@ (96 :> 8) @@ (384 :> 16) @@ (1536 :> 32)

\* the plate format fields of a writer
Format(wells, r, c) == [plateformat |-> wells, rows |-> r, columns |-> c]

\* A faulty Worklist._set_plateformat: the format is assigned before it is
\* validated.  C15 must not hold of it.
_set_plateformat_assign_first(wells, cur) ==
    IF wells \notin ALLOWED_PLATES
    THEN [ok |-> FALSE, exc |-> "WorklistException",
          fmt |-> [cur EXCEPT !.plateformat = wells]]
    ELSE [ok |-> TRUE, exc |-> "none",
          fmt |-> Format(wells, PLATE_ROWS[wells], wells \div PLATE_ROWS[wells])]

\* Worklist._set_plateformat(wells); cur holds the fields before the call.
\* columns = wells / rows is a true division; the quotient is exact for every
\* entry of PLATE_ROWS, so the float equals the integer written here.
_set_plateformat(wells, cur) ==
    IF wells \notin ALLOWED_PLATES
    THEN [ok |-> FALSE, exc |-> "WorklistException", fmt |-> cur]
    ELSE [ok |-> TRUE, exc |-> "none",
          fmt |-> Format(wells, PLATE_ROWS[wells], wells \div PLATE_ROWS[wells])]

\* Worklist.transfer(srcID, srcPosition, dstID, dstPosition, volume,
\*                   srcRackType, dstRackType, liquidClass, wash)
transfer(a, dlc) ==
    Then(aspirate([NoArgs EXCEPT !.rackID = a.srcID,
                                 !.rackType = a.srcRackType,
                                 !.position = a.srcPosition,
                                 !.volume = a.volume,
                                 !.liquidClass = a.liquidClass], dlc),
         dispense([NoArgs EXCEPT !.rackID = a.dstID,
                                 !.rackType = a.dstRackType,
                                 !.position = a.dstPosition,
                                 !.volume = a.volume,
                                 !.liquidClass = a.liquidClass], a.wash, dlc))

\* the body of the loop of transferColumn for the row index i
transferColumn_pair(a, i, pos_src, pos_dst, dlc) ==
    Then(aspirate([NoArgs EXCEPT !.rackID = a.srcID,
                                 !.position = pos_src + i,
                                 !.volume = a.volume,
                                 !.liquidClass = a.liquidClass,
                                 !.tipMask = a.tipMask], dlc),
         dispense([NoArgs EXCEPT !.rackID = a.dstID,
                                 !.position = pos_dst + i,
                                 !.volume = a.volume,
                                 !.liquidClass = a.liquidClass,
                                 !.tipMask = a.tipMask], a.wash, dlc))

RECURSIVE transferColumn_loop(_, _, _, _, _, _)
\* for i in range(i, n): the loop of transferColumn from index i on
transferColumn_loop(a, i, n, pos_src, pos_dst, dlc) ==
    IF i >= n THEN Wrote(<<>>)
    ELSE LET pair == transferColumn_pair(a, i, pos_src, pos_dst, dlc)
         IN  IF ~pair.ok THEN pair
             ELSE Then(pair, transferColumn_loop(a, i + 1, n, pos_src, pos_dst, dlc))

\* A faulty Worklist.transferColumn: the first position of a column is
\* taken to be (col - 1) * rows.  C12 must not hold of it.
transferColumn_zero_based(a, nrows, dlc) ==
    LET pos_src == (a.srcCol - 1) * nrows
        pos_dst == (a.dstCol - 1) * nrows
        r == transferColumn_loop(a, 0, nrows, pos_src, pos_dst, dlc)
    IN  [ok |-> r.ok, exc |-> r.exc, lines |-> r.lines,
         ret |-> IF r.ok THEN <<nrows - 1>> ELSE <<>>]

\* Worklist.transferColumn(srcID, srcCol, dstID, dstCol, volume, liquidClass,
\*                         tipMask, wash); nrows is self.rows.  "return i"
\* returns the last value of the loop variable, nrows - 1.
transferColumn(a, nrows, dlc) ==
    LET pos_src == (a.srcCol - 1) * nrows + 1
        pos_dst == (a.dstCol - 1) * nrows + 1
        r == transferColumn_loop(a, 0, nrows, pos_src, pos_dst, dlc)
    IN  [ok |-> r.ok, exc |-> r.exc, lines |-> r.lines,
         ret |-> IF r.ok THEN <<nrows - 1>> ELSE <<>>]

\* Worklist.distribute(...): one R line; the text ends in ';' followed by
\* the excluded wells joined by ';'
distribute(a) ==
    IF a.srcRackLabel = "" /\ a.srcRackID = "" THEN Raised("WorklistException")
    ELSE IF a.dstRackLabel = "" /\ a.dstRackID = "" THEN Raised("WorklistException")
    ELSE Wrote(<< <<"R", a.srcRackLabel, a.srcRackID, a.srcRackType,
                    str(a.srcPosStart), str(a.srcPosEnd),
                    a.dstRackLabel, a.dstRackID, a.dstRackType,
                    str(a.dstPosStart), str(a.dstPosEnd),
                    str(a.volume), a.liquidClass, str(a.nDitiReuses),
                    str(a.nMultiDisp), str(a.direction)>>
                  \o (IF a.excludeWells = <<>> THEN <<"">>
                      ELSE [i \in DOMAIN a.excludeWells |-> str(a.excludeWells[i])])
               >>)

\* list.reverse()
Reverse(xs) == [i \in 1..Len(xs) |-> xs[Len(xs) + 1 - i]]

\* the default arguments of multidiswithflush
NoMultiArgs ==
    [srcLabel |-> "", srcPos |-> 1, dstLabel |-> "", dstPos |-> <<>>,
     volume |-> 0, tipVolume |-> 900, liquidClass |-> <<>>, tipMask |-> <<>>,
     wash |-> TRUE, flush |-> TRUE]

\* no multidiswithflush call is in progress
NoFrame ==
    [active |-> FALSE, a |-> NoMultiArgs, dstPos |-> <<>>, totalVolume |-> 0,
     tipVolume |-> 0, cycles |-> 0]

\* A faulty start of multidiswithflush: the destination list is not
\* reversed before it is consumed from its tail.  C14 must not hold of it.
multidis_start_unreversed(a) ==
    [active |-> TRUE, a |-> a, dstPos |-> a.dstPos,
     totalVolume |-> a.volume * Len(a.dstPos),
     tipVolume |-> a.tipVolume - PyMod(a.tipVolume, a.volume), cycles |-> 0]

\* multidiswithflush up to its while loop (lines 431-435), volume # 0
multidis_start(a) ==
    [active |-> TRUE, a |-> a, dstPos |-> Reverse(a.dstPos),
     totalVolume |-> a.volume * Len(a.dstPos),
     tipVolume |-> a.tipVolume - PyMod(a.tipVolume, a.volume), cycles |-> 0]

RECURSIVE multidis_dispenses(_, _, _, _)
\* for i in range(0, k): well = dstPos.pop(); self.dispense(..., wash=False)
multidis_dispenses(a, dstPos, k, dlc) ==
    IF k <= 0 THEN [ok |-> TRUE, exc |-> "none", lines |-> <<>>, dstPos |-> dstPos]
    ELSE LET well == dstPos[Len(dstPos)]
             left == SubSeq(dstPos, 1, Len(dstPos) - 1)
             d == dispense([NoArgs EXCEPT !.rackLabel = a.dstLabel,
                                          !.position = well,
                                          !.volume = a.volume,
                                          !.liquidClass = a.liquidClass,
                                          !.tipMask = a.tipMask], FALSE, dlc)
         IN  IF ~d.ok
             THEN [ok |-> FALSE, exc |-> d.exc, lines |-> <<>>, dstPos |-> left]
             ELSE LET more == multidis_dispenses(a, left, k - 1, dlc)
                  IN  [more EXCEPT !.lines = d.lines \o @]

\* one iteration of the while loop of multidiswithflush (lines 437-462):
\* [ok, exc, lines, frame]
multidis_cycle(f, dlc) ==
    LET a == f.a
        aspVolume == IF f.totalVolume <= f.tipVolume THEN f.totalVolume
                     ELSE f.tipVolume
        asp == aspirate([NoArgs EXCEPT !.rackLabel = a.srcLabel,
                                       !.position = a.srcPos,
                                       !.volume = aspVolume,
                                       !.liquidClass = a.liquidClass,
                                       !.tipMask = a.tipMask], dlc)
        n_next_dispense == TruncDiv(aspVolume, a.volume)
        dis == multidis_dispenses(a, f.dstPos, n_next_dispense, dlc)
        totalVolume == f.totalVolume - aspVolume
    IN  IF ~asp.ok
        THEN [ok |-> FALSE, exc |-> asp.exc, lines |-> <<>>, frame |-> NoFrame]
        ELSE IF n_next_dispense > Len(f.dstPos)
        THEN [ok |-> FALSE, exc |-> "AssertionError", lines |-> asp.lines,
              frame |-> NoFrame]
        ELSE IF ~dis.ok
        THEN [ok |-> FALSE, exc |-> dis.exc, lines |-> asp.lines \o dis.lines,
              frame |-> NoFrame]
        ELSE [ok |-> TRUE, exc |-> "none",
              lines |-> asp.lines \o dis.lines
                        \o (IF totalVolume > 0 /\ a.flush THEN flush.lines ELSE <<>>),
              frame |-> [f EXCEPT !.dstPos = dis.dstPos,
                                  !.totalVolume = totalVolume,
                                  !.cycles = @ + 1]]

\* multidiswithflush after its while loop (lines 464-465)
multidis_finish(f) == IF f.a.wash THEN wash ELSE Wrote(<<>>)

(***************************************************************************)
(* Free text.  A text is a sequence of pieces; the pieces LF, CR and SEP   *)
(* are the line feed, the carriage return and the ';' between fields, any  *)
(* other piece is a run of ordinary characters.                            *)
(***************************************************************************)
LF  == "\n"
CR  == "\r"
SEP == ";"

\* str.replace(c, ''): the text without the piece c
replace(text, c) == LET Keep(x) == x # c IN SelectSeq(text, Keep)

\* the index of the first piece c of text, 0 if there is none
FirstOf(text, c) ==
    IF c \in Range(text) THEN CHOOSE i \in DOMAIN text :
                                  text[i] = c /\ \A j \in 1..(i - 1) : text[j] # c
    ELSE 0

RECURSIVE Join(_)
\* ''.join(pieces)
Join(pieces) == IF pieces = <<>> THEN "" ELSE pieces[1] \o Join(Tail(pieces))

RECURSIVE Fields(_)
\* the fields of one line of text: line.split(';')
Fields(text) ==
    LET i == FirstOf(text, SEP)
    IN  IF i = 0 THEN <<Join(text)>>
        ELSE <<Join(SubSeq(text, 1, i - 1))>> \o Fields(SubSeq(text, i + 1, Len(text)))

RECURSIVE TextLines(_)
\* the lines a text adds to the worklist: every line feed ends one
TextLines(text) ==
    LET i == FirstOf(text, LF)
    IN  IF text = <<>> THEN <<>>
        ELSE IF i = 0 THEN <<Fields(text)>>
        ELSE <<Fields(SubSeq(text, 1, i - 1))>> \o TextLines(SubSeq(text, i + 1, Len(text)))

\* Worklist.write(line): str.replace returns a new string, which lines 488
\* and 489 drop; the text written is the argument as given, plus '\n'
write(line) ==
    LET without_lf == replace(line, LF)
        without_cr == replace(line, CR)
    IN  Wrote(TextLines(line \o <<LF>>))

\* Worklist.comment(comment): self.write('C; ' + comment)
comment(text) == write(<<"C", SEP, " ">> \o text)

(***************************************************************************)
(* The Worklist state machine.                                             *)
(***************************************************************************)
\* the arguments aspirate and dispense are called with
TransferArgs ==
    { [NoArgs EXCEPT !.rackLabel = "Src1", !.rackType = "Ty", !.position = 96,
                     !.tubeID = "Tb", !.volume = 25, !.liquidClass = <<"Water">>],
      [NoArgs EXCEPT !.rackID = "0042", !.position = 96, !.volume = 25,
                     !.tipMask = <<1>>],
      [NoArgs EXCEPT !.position = 96, !.volume = 25] }

LiquidClasses == {<<>>, <<"Buffer">>}

NewSink == [data |-> <<>>, closed |-> FALSE, closes |-> 0]

\* a call: the method, its arguments (args, wash; exc is the exception type
\* handed to __exit__), whether the writer held its sink when it was made
\* (held), and its outcome (ok; exc is the exception a failed call raised)
Called(op, a, w, held, ok, exc) ==
    [op |-> op, args |-> a, wash |-> w, held |-> held, ok |-> ok, exc |-> exc]

NoLast == Called("none", NoArgs, FALSE, FALSE, TRUE, "none")

\* Worklist.__init__(fh, liquidClass)
WorklistInit(fh, liquidClass) ==
    /\ out = <<>>
    /\ target_fh = IF fh THEN "fh" ELSE "None"
    /\ sink = NewSink
    /\ ctor = [fh |-> fh, liquidClass |-> liquidClass]
    /\ scope = "outside"
    /\ raised = "none"
    /\ caller = "none"
    /\ last = NoLast
    /\ before = <<>>
    /\ plateformat = 96
    /\ rows = 8
    /\ columns = 12
    /\ mw = NoFrame
    /\ ret = <<>>
    /\ calls = 0

\* a method may be called unless an exception is unwinding the with block
Callable == scope \in {"outside", "inside", "exited"}

\* the effect of an emitting method with outcome r
Emit(op, a, w, r) ==
    /\ Callable
    /\ Len(out) + Len(r.lines) <= MaxLines
    /\ out' = out \o r.lines
    /\ before' = out
    /\ last' = Called(op, a, w, target_fh # "None", r.ok, r.exc)
    /\ IF ~r.ok /\ scope = "inside"
       THEN scope' = "raising" /\ raised' = r.exc
       ELSE UNCHANGED <<scope, raised>>
    /\ UNCHANGED <<target_fh, sink, ctor, caller, cmdVars, plateVars>>

Aspirate == \E a \in TransferArgs : Emit("aspirate", a, FALSE, aspirate(a, ctor.liquidClass))

Dispense ==
    \E a \in TransferArgs, w \in BOOLEAN :
        Emit("dispense", a, w, dispense(a, w, ctor.liquidClass))

Wash == Emit("wash", NoArgs, FALSE, wash)

Flush == Emit("flush", NoArgs, FALSE, flush)

Break == Emit("B", NoArgs, FALSE, B)

Close ==
    /\ Callable
    /\ LET c == close(target_fh, sink)
       IN  /\ target_fh' = c.fh
           /\ sink' = c.sink
    /\ last' = Called("close", NoArgs, FALSE, target_fh # "None", TRUE, "none")
    /\ before' = out
    /\ UNCHANGED <<out, ctor, scope, raised, caller, cmdVars, plateVars>>

\* "with wl:" is entered: Worklist.__enter__; one with block per writer
Enter ==
    /\ scope = "outside"
    /\ scope' = "inside"
    /\ caller' = "none"
    /\ last' = Called("__enter__", NoArgs, FALSE, target_fh # "None", TRUE, "none")
    /\ before' = out
    /\ UNCHANGED <<out, target_fh, sink, ctor, raised, cmdVars, plateVars>>

\* code of the with block other than a Worklist method raises
BlockRaises ==
    /\ scope = "inside"
    /\ scope' = "raising"
    /\ raised' = "Exception"
    /\ UNCHANGED <<out, target_fh, sink, ctor, caller, last, before, cmdVars,
                   plateVars>>

\* the with block is left, normally or by the exception in flight
Exit ==
    /\ scope \in {"inside", "raising"}
    /\ LET x == __exit__(target_fh, sink, out)
       IN  /\ target_fh' = x.fh
           /\ sink' = x.sink
           /\ caller' = IF raised # "none" /\ ~x.ret THEN raised ELSE "normal"
    /\ scope' = "exited"
    /\ raised' = "none"
    /\ last' = Called("__exit__", NoArgs, FALSE, target_fh # "None", TRUE, raised)
    /\ before' = out
    /\ UNCHANGED <<out, ctor, cmdVars, plateVars>>

NextWorklist ==
    \/ Aspirate
    \/ Dispense
    \/ Wash
    \/ Flush
    \/ Break
    \/ Close
    \/ Enter
    \/ BlockRaises
    \/ Exit

(***************************************************************************)
(* The command machine: a writer is given a bounded number of commands of  *)
(* every kind, one after the other.  multidiswithflush advances by one     *)
(* iteration of its while loop per step, since the loop need not end.      *)
(***************************************************************************)
\* source and destination rack: both given, source missing, destination
\* missing
RackPairs == {<<"S1", "D1">>, <<"", "D1">>, <<"S1", "">>}

\* the values assigned to plateformat
PlateInputs == ALLOWED_PLATES \cup {0, 48}

TransferCalls ==
    {[srcID |-> p[1], srcPosition |-> 1, dstID |-> p[2], dstPosition |-> 96,
      volume |-> 25, srcRackType |-> "", dstRackType |-> "",
      liquidClass |-> <<>>, wash |-> w] : p \in RackPairs, w \in BOOLEAN}

ColumnCalls ==
    {[srcID |-> p[1], srcCol |-> c[1], dstID |-> p[2], dstCol |-> c[2],
      volume |-> 10, liquidClass |-> <<>>, tipMask |-> <<>>, wash |-> w] :
        p \in RackPairs, c \in {<<1, 1>>, <<2, 3>>}, w \in BOOLEAN}

DistributeCalls ==
    {[srcRackLabel |-> p[1], srcRackID |-> "", srcRackType |-> "",
      srcPosStart |-> 1, srcPosEnd |-> 96,
      dstRackLabel |-> "", dstRackID |-> p[2], dstRackType |-> "",
      dstPosStart |-> 1, dstPosEnd |-> 96,
      volume |-> 50, liquidClass |-> "", nDitiReuses |-> 1, nMultiDisp |-> 1,
      direction |-> 0, excludeWells |-> e] :
        p \in RackPairs, e \in {<<>>, <<2, 3>>}}

\* k destination wells, not in ascending order
Destinations(k) == [i \in 1..k |-> ((i * 3) % 7) + 1]

\* a few multidiswithflush calls: two destinations, one dose per tip
FewMultiCalls ==
    {[NoMultiArgs EXCEPT !.srcLabel = p[1], !.dstLabel = p[2],
                         !.dstPos = <<3, 1>>, !.volume = 2, !.tipVolume = 2] :
        p \in RackPairs}

\* multidiswithflush calls over all small volumes and destination lists
MultiCalls ==
    {[NoMultiArgs EXCEPT !.srcLabel = p[1], !.dstLabel = p[2],
                         !.dstPos = Destinations(k), !.volume = v,
                         !.tipVolume = t, !.wash = w, !.flush = fl] :
        p \in RackPairs, k \in 0..MaxDst, v \in 1..MaxVolume, t \in 1..MaxTip,
        w \in BOOLEAN, fl \in BOOLEAN}

\* free text handed to write and to comment
WriteTexts ==
    {<<"B", SEP>>, <<"C", SEP, " a", LF, "A", SEP, "x">>, <<"x", CR, LF>>}

CommentTexts == {<<"note">>, <<"one", LF, "two">>}

\* the writer takes a command: it is used outside a with block, no command
\* is in progress, and the caller has commands left
Ready ==
    /\ scope = "outside"
    /\ ~mw.active
    /\ calls < MaxCalls

\* a command that runs to its end in one step, with outcome r and return
\* value rv
Command(op, a, w, r, rv) ==
    /\ Ready
    /\ out' = _out_write(out, r.lines)
    /\ before' = out
    /\ last' = Called(op, a, w, target_fh # "None", r.ok, r.exc)
    /\ ret' = IF r.ok THEN rv ELSE <<>>
    /\ calls' = calls + 1
    /\ UNCHANGED <<target_fh, sink, ctor, scope, raised, caller, plateformat,
                   rows, columns, mw, plateVars>>

CallAspirate ==
    \E a \in TransferArgs :
        Command("aspirate", a, FALSE, aspirate(a, ctor.liquidClass), <<>>)

CallDispense ==
    \E a \in TransferArgs, w \in BOOLEAN :
        Command("dispense", a, w, dispense(a, w, ctor.liquidClass), <<>>)

CallWash == Command("wash", NoArgs, FALSE, wash, <<>>)

CallFlush == Command("flush", NoArgs, FALSE, flush, <<>>)

CallB == Command("B", NoArgs, FALSE, B, <<>>)

CallClose ==
    /\ Ready
    /\ LET c == close(target_fh, sink)
       IN  /\ target_fh' = c.fh
           /\ sink' = c.sink
    /\ last' = Called("close", NoArgs, FALSE, target_fh # "None", TRUE, "none")
    /\ before' = out
    /\ ret' = <<>>
    /\ calls' = calls + 1
    /\ UNCHANGED <<out, ctor, scope, raised, caller, plateformat, rows,
                   columns, mw, plateVars>>

\* wl.plateformat = wells
SetPlateformat ==
    /\ Ready
    /\ \E wells \in PlateInputs :
         LET cur == Format(plateformat, rows, columns)
             r == _set_plateformat(wells, cur)
         IN  /\ plateformat' = r.fmt.plateformat
             /\ rows' = r.fmt.rows
             /\ columns' = r.fmt.columns
             /\ last' = Called("plateformat", [wells |-> wells, old |-> cur],
                               FALSE, target_fh # "None", r.ok, r.exc)
    /\ before' = out
    /\ ret' = <<>>
    /\ calls' = calls + 1
    /\ UNCHANGED <<out, target_fh, sink, ctor, scope, raised, caller, mw,
                   plateVars>>

Transfer ==
    \E a \in TransferCalls :
        Command("transfer", a, a.wash, transfer(a, ctor.liquidClass), <<>>)

Distribute ==
    \E a \in DistributeCalls : Command("distribute", a, FALSE, distribute(a), <<>>)

TransferColumn ==
    \E a \in ColumnCalls :
        LET r == transferColumn(a, rows, ctor.liquidClass)
        IN  Command("transferColumn", a, a.wash, r, r.ret)

Write == \E t \in WriteTexts : Command("write", [line |-> t], FALSE, write(t), <<>>)

Comment ==
    \E t \in CommentTexts :
        Command("comment", [comment |-> t], FALSE, comment(t), <<>>)

\* multidiswithflush is called with arguments from S and reaches its loop
Multidiswithflush(S) ==
    /\ Ready
    /\ \E a \in S :
         /\ mw' = multidis_start(a)
         /\ last' = Called("multidiswithflush", a, a.wash, target_fh # "None",
                           TRUE, "none")
    /\ before' = out
    /\ ret' = <<>>
    /\ calls' = calls + 1
    /\ UNCHANGED <<out, target_fh, sink, ctor, scope, raised, caller,
                   plateformat, rows, columns, plateVars>>

\* one iteration of the while loop; an exception ends the call
MultidisCycle ==
    /\ mw.active
    /\ mw.totalVolume > 0
    /\ mw.cycles < MaxCycles
    /\ LET c == multidis_cycle(mw, ctor.liquidClass)
       IN  /\ out' = _out_write(out, c.lines)
           /\ mw' = c.frame
           /\ last' = [last EXCEPT !.ok = c.ok, !.exc = c.exc]
    /\ UNCHANGED <<target_fh, sink, ctor, scope, raised, caller, before,
                   plateformat, rows, columns, ret, calls, plateVars>>

\* the loop has ended: the final wash, and the call returns
MultidisReturn ==
    /\ mw.active
    /\ mw.totalVolume <= 0
    /\ out' = _out_write(out, multidis_finish(mw).lines)
    /\ mw' = NoFrame
    /\ UNCHANGED <<target_fh, sink, ctor, scope, raised, caller, last, before,
                   plateformat, rows, columns, ret, calls, plateVars>>

\* multidiswithflush as the first command of a writer
MultidisOnFreshWriter == calls = 0 /\ Multidiswithflush(MultiCalls)

NextCommands ==
    \/ CallAspirate
    \/ CallDispense
    \/ CallWash
    \/ CallFlush
    \/ CallB
    \/ CallClose
    \/ SetPlateformat
    \/ Transfer
    \/ Distribute
    \/ TransferColumn
    \/ Write
    \/ Comment
    \/ Multidiswithflush(FewMultiCalls)
    \/ MultidisCycle
    \/ MultidisReturn

NextMulti ==
    \/ MultidisOnFreshWriter
    \/ MultidisCycle
    \/ MultidisReturn

(***************************************************************************)
(* Specifications.                                                         *)
(***************************************************************************)
PlateInit ==
    /\ pf = NoPlate
    /\ pcall = NoCall
    /\ pres = NoResult

InitPlate == PlateInit /\ WorklistInit(FALSE, <<>>)

InitWorklist ==
    /\ PlateInit
    /\ \E fh \in BOOLEAN, lc \in LiquidClasses : WorklistInit(fh, lc)

SpecPlate == InitPlate /\ [][NextPlate]_vars

SpecWorklist == InitWorklist /\ [][NextWorklist]_vars

\* a writer with a sink and no default liquid class
InitCommands == PlateInit /\ WorklistInit(TRUE, <<>>)

SpecCommands == InitCommands /\ [][NextCommands]_vars

\* a writer without sink or default liquid class
InitMulti == PlateInit /\ WorklistInit(FALSE, <<>>)

SpecMulti == InitMulti /\ [][NextMulti]_vars



(***************************************************************************)
(* Properties of PlateFormat, checked under SpecPlate.                     *)
(***************************************************************************)
\* a standard format built with default dimensions, PlateFormat(n)
IsDefault(f) ==
    /\ f.n \in ALLOWED_PLATES
    /\ f.nx = ResolveNx(f.n, 0)
    /\ f.ny = ResolveNy(f.n, 0, 0)

\* C1: on every standard format with default dimensions and every position
\* p in 1..n, int2human(p) returns a coordinate and human2int of that
\* coordinate is p again.
C1_RoundTrip ==
    (IsDefault(pf) /\ pcall.op = "int2human" /\ pcall.a \in 1..pf.n)
        => /\ pres.kind = "ok"
           /\ human2int_str(pf, pres.s) = Ok(pcall.a, 0, <<>>)

\* The round trip of C1 on the plates whose rows fit the alphabet (all
\* standard formats but 1536).
RoundTripWithin26Rows ==
    (IsDefault(pf) /\ pf.ny <= 26 /\ pcall.op = "int2human" /\ pcall.a \in 1..pf.n)
        => /\ pres.kind = "ok"
           /\ human2int_str(pf, pres.s) = Ok(pcall.a, 0, <<>>)

\* C2: on every standard format and every position p in 1..n,
\* gridindex2int(*int2gridindex(p)) = p, and at the last row of a column
\* (p mod ny = 0) int2gridindex returns row ny - 1.
C2_GridRoundTrip ==
    (IsDefault(pf) /\ pcall.op = "int2gridindex" /\ pcall.a \in 1..pf.n)
        => /\ gridindex2int(pf, pres.a, pres.b) = pcall.a
           /\ (pcall.a % pf.ny = 0 => pres.a = pf.ny - 1)

\* The grid round trip of C2 on the one format with eight rows.
GridRoundTrip96 ==
    (IsDefault(pf) /\ pf.n = 96 /\ pcall.op = "int2gridindex" /\ pcall.a \in 1..pf.n)
        => /\ gridindex2int(pf, pres.a, pres.b) = pcall.a
           /\ (pcall.a % pf.ny = 0 => pres.a = pf.ny - 1)

\* C3: every constructed PlateFormat has nx * ny = n, and a construction
\* whose resolved nx * ny differs from n raises PlateError and yields no
\* object; any other construction yields the object with the resolved
\* dimensions.
C3_Geometry ==
    /\ pf # NoPlate => pf.nx * pf.ny = pf.n
    /\ pcall.op = "__init__" =>
         LET rx == ResolveNx(pcall.a, pcall.b)
             ry == ResolveNy(pcall.a, pcall.b, pcall.c)
         IN  IF rx * ry # pcall.a
             THEN pres.kind = "PlateError" /\ pf = NoPlate
             ELSE pres.kind = "ok" /\ pf = [n |-> pcall.a, nx |-> rx, ny |-> ry]

\* C3's case: explicit nx and ny that do not multiply to n are rejected.
C3_Witness ==
    /\ pcall.op = "__init__"
    /\ pcall.b > 0 /\ pcall.c > 0 /\ pcall.b * pcall.c # pcall.a
    /\ pres.kind = "PlateError"
    /\ pf = NoPlate

\* C4: human2int either returns a position in 1..n or raises PlateError,
\* whatever its input (an integer, a float, a string); stated here for the
\* standard formats.
C4_Human2intInRangeOrPlateError ==
    (IsDefault(pf) /\ pcall.op = "human2int")
        => \/ pres.kind = "ok" /\ pres.a \in 1..pf.n
           \/ pres.kind = "PlateError"

\* What human2int does guarantee: it never returns 0 or a position above n.
Human2intNeverZeroNorAboveN ==
    (pcall.op = "human2int" /\ pres.kind = "ok") => (pres.a # 0 /\ pres.a <= pf.n)

\* C5: int2human raises PlateError for every integer outside 1..n; stated
\* here for the standard formats.
C5_Int2humanRejectsOutside ==
    (IsDefault(pf) /\ pcall.op = "int2human" /\ pcall.a \notin 1..pf.n)
        => pres.kind = "PlateError"

\* What int2human does guarantee: positions above n raise PlateError.
Int2humanRejectsAboveN ==
    (IsDefault(pf) /\ pcall.op = "int2human" /\ pcall.a > pf.n)
        => pres.kind = "PlateError"

\* xs is strictly ascending and lists exactly the members of S
AscendingListOf(xs, S) ==
    /\ \A i \in 1..(Len(xs) - 1) : xs[i] < xs[i + 1]
    /\ Range(xs) = S

\* the positions of 1..n in the row of p, at or right of p
RowFrom(f, p) == {q \in p..f.n : (q - p) % f.ny = 0}

\* the positions from p to the last one of p's column
ColumnFrom(f, p) == p..((((p - 1) \div f.ny) + 1) * f.ny)

\* C18: on every standard format with default dimensions and every p in
\* 1..n, right_on_row(p) is the ascending list p, p + ny, p + 2 ny, ... of
\* exactly the positions <= n of p's row at or right of p, and
\* down_on_column(p) is the ascending list p, p + 1, ... up to the last
\* position of p's column; on the 24-well plate right_on_row(1) is
\* [1, 5, 9, 13, 17, 21] and down_on_column(1) is [1, 2, 3, 4].
C18_RowAndColumnWalks ==
    (IsDefault(pf) /\ pcall.a \in 1..pf.n) =>
        /\ pcall.op = "right_on_row" =>
             /\ AscendingListOf(pres.s, RowFrom(pf, pcall.a))
             /\ (pf.n = 24 /\ pcall.a = 1) => pres.s = <<1, 5, 9, 13, 17, 21>>
        /\ pcall.op = "down_on_column" =>
             /\ AscendingListOf(pres.s, ColumnFrom(pf, pcall.a))
             /\ (pf.n = 24 /\ pcall.a = 1) => pres.s = <<1, 2, 3, 4>>

\* C18's case: a walk down a column that starts in its middle and stops at
\* its last row, on a plate whose rows are not eight.
C18_Witness ==
    /\ IsDefault(pf) /\ pf.n = 24
    /\ pcall.op = "down_on_column" /\ pcall.a = 10
    /\ pres.s = <<10, 11, 12>>

\* The walk along a row from a well of the last row, where int2gridindex
\* reports row 7 whatever the plate: the filter on n hides the wrong end.
RowWalkFromLastRow ==
    (IsDefault(pf) /\ pcall.op = "right_on_row" /\ pcall.a \in 1..pf.n
       /\ pcall.a % pf.ny = 0)
        => /\ int2gridindex(pf, pcall.a).row = 7
           /\ pres.s # <<>>
           /\ pres.s[Len(pres.s)] = pf.n

\* C19: a lettered coordinate (letter, number) that human2int accepts names
\* the well it returns: int2human of the result reads back as (uppercase
\* letter, number).
C19_LetteredRoundTrip ==
    LET t == str2tuple(pcall.s)
    IN  (pcall.op = "human2int" /\ pcall.tag = "str" /\ t.m /\ t.letter # <<>>
           /\ pres.kind = "ok")
            => LET h == int2human(pf, pres.a)
               IN  /\ h.kind = "ok"
                   /\ str2tuple(h.s) = t

\* What holds of lettered coordinates: inside the grid of a plate of at most
\* 26 rows (letter among the first ny, number in 1..nx) the round trip of
\* C19 holds.
LetteredRoundTripInsideGrid ==
    LET t == str2tuple(pcall.s)
    IN  (pcall.op = "human2int" /\ pcall.tag = "str" /\ t.m /\ t.letter # <<>>
           /\ IsDefault(pf) /\ pf.ny <= 26
           /\ Find(ascii_uppercase, t.letter[1]) < pf.ny
           /\ t.number \in 1..pf.nx)
            => /\ pres.kind = "ok"
               /\ LET h == int2human(pf, pres.a)
                  IN  h.kind = "ok" /\ str2tuple(h.s) = t


(***************************************************************************)
(* Properties of Worklist, checked under SpecWorklist.                     *)
(***************************************************************************)
\* the lines the last call appended
Appended == SubSeq(out, Len(before) + 1, Len(out))

\* nothing written before the last call has changed
PrefixKept == Len(before) <= Len(out) /\ SubSeq(out, 1, Len(before)) = before

\* the liquid class field of a call: the argument, else the writer's
\* default, else empty
LiquidClassField(a) ==
    IF a.liquidClass # <<>> THEN a.liquidClass[1]
    ELSE IF ctor.liquidClass # <<>> THEN ctor.liquidClass[1]
    ELSE ""

\* the line of section 6: tag;rackLabel;rackID;rackType;position;tubeID;
\* volume;liquidClass[;tipMask]
DocumentedLine(tag, a) ==
    <<tag, a.rackLabel, a.rackID, a.rackType, str(a.position), a.tubeID,
      str(a.volume), LiquidClassField(a)>>
    \o (IF a.tipMask = <<>> THEN <<>> ELSE <<str(a.tipMask[1])>>)

\* C6: a successful aspirate appends exactly the line
\* A;rackLabel;rackID;rackType;position;tubeID;volume;liquidClass, with a
\* ninth field tipMask if and only if tipMask was given; dispense appends
\* the same layout with tag D (before its wash line, if any).
C6_FieldLayout ==
    /\ (last.op = "aspirate" /\ last.ok)
         => PrefixKept /\ Appended = << DocumentedLine("A", last.args) >>
    /\ (last.op = "dispense" /\ last.ok)
         => /\ PrefixKept
            /\ Len(Appended) >= 1
            /\ Appended[1] = DocumentedLine("D", last.args)

\* What the code writes: the layout of C6 with the rack ID in the second
\* field and the rack label in the third.
SwappedLayout ==
    (last.op \in {"aspirate", "dispense"} /\ last.ok)
        => /\ PrefixKept
           /\ Len(Appended) >= 1
           /\ Appended[1] =
                DocumentedLine(IF last.op = "aspirate" THEN "A" ELSE "D",
                               [last.args EXCEPT !.rackLabel = last.args.rackID,
                                                 !.rackID = last.args.rackLabel])

\* C7: a successful dispense appends one D line and, with wash = True,
\* exactly one W; line right after it, with wash = False nothing else; so
\* an aspirate followed by a dispense with the default wash leaves exactly
\* the three lines A, D, W in that order.
C7_DispenseWash ==
    (last.op = "dispense" /\ last.ok)
        => /\ PrefixKept
           /\ Len(Appended) = (IF last.wash THEN 2 ELSE 1)
           /\ Appended[1][1] = "D"
           /\ last.wash => Appended[2] = <<"W", "">>
           /\ (Len(before) = 1 /\ before[1][1] = "A" /\ last.wash)
                => (Len(out) = 3 /\ [i \in 1..3 |-> out[i][1]] = <<"A", "D", "W">>)

\* C7's case: a fresh writer after aspirate, then dispense with wash.
C7_Witness ==
    /\ last.op = "dispense" /\ last.ok /\ last.wash
    /\ Len(before) = 1 /\ before[1][1] = "A"
    /\ Len(out) = 3 /\ out[3] = <<"W", "">>

\* C8: on a writer constructed with a sink, after emissions followed by an
\* explicit close() the sink is closed and holds every emitted line, in
\* order.
C8_CloseFlushes ==
    (ctor.fh /\ last.op = "close" /\ last.held)
        => sink.closed /\ sink.data = out

\* What close() does: it closes the sink and writes nothing to it.
CloseWritesNothing ==
    (last.op = "close" /\ last.held)
        => (sink.closed /\ sink.data = <<>> /\ target_fh = "None")

\* C9: over any sequence of close() calls and with-block exits the close
\* of the sink is invoked at most once.
C9_SinkClosedOnce ==
    sink.closes <= 1

\* What holds of releases: close() by itself invokes the close of the sink
\* at most once however often it is called, a close() on a writer without
\* sink invokes nothing more, and a with-block exit of a writer that holds
\* its sink invokes it twice.
ClosesCounted ==
    /\ scope = "outside" => sink.closes <= 1
    /\ (last.op = "close" /\ ~last.held) => target_fh = "None"
    /\ (last.op = "__exit__" /\ last.held) => sink.closes = 2
    /\ (ctor.fh /\ target_fh = "None") <=> sink.closed

ExitAfterCloseWritesNothing ==
    (ctor.fh /\ last.op = "__exit__" /\ ~last.held)
        => (sink.data = <<>> /\ sink.closed)


(***************************************************************************)
(* Properties of the commands of a Worklist, checked under SpecCommands    *)
(* and, for multidiswithflush alone, under SpecMulti.                      *)
(***************************************************************************)
\* the tags of a sequence of lines
Tags(lines) == [i \in DOMAIN lines |-> lines[i][1]]

\* the number of lines with the given tag
CountTag(lines, tag) == Cardinality({i \in DOMAIN lines : lines[i][1] = tag})

\* C11: a command that fails leaves the buffer as it was before the call;
\* for aspirate, dispense, distribute, transfer, transferColumn and
\* multidiswithflush.
C11_NoPartialResult ==
    (last.op \in {"aspirate", "dispense", "distribute", "transfer",
                  "transferColumn", "multidiswithflush"}
       /\ ~last.ok)
        => out = before

\* What holds of failures: aspirate, dispense and distribute validate before
\* they write, and the composite commands leave nothing when it is their
\* source rack that is missing.
FailureBeforeFirstLine ==
    /\ (last.op \in {"aspirate", "dispense", "distribute"} /\ ~last.ok)
         => out = before
    /\ (last.op \in {"transfer", "transferColumn"} /\ ~last.ok
          /\ last.args.srcID = "")
         => out = before
    /\ (last.op = "multidiswithflush" /\ ~last.ok /\ last.args.srcLabel = "")
         => out = before

\* C12: a successful transferColumn appends exactly rows aspirate/dispense
\* pairs, rows being the table value of the plate format; the i-th pair
\* (i = 0..rows-1) addresses source position (srcCol-1)*rows + 1 + i and
\* destination position (dstCol-1)*rows + 1 + i, each dispense followed by
\* its W; when wash is set; on the 96-well default with column 1 to 1 these
\* are 8 pairs over the positions 1..8.
C12_ColumnPairs ==
    (last.op = "transferColumn" /\ last.ok) =>
        LET a == last.args
            n == PLATE_ROWS[plateformat]
            stride == IF a.wash THEN 3 ELSE 2
            L == Appended
        IN  /\ PrefixKept
            /\ rows = n
            /\ Len(L) = n * stride
            /\ CountTag(L, "A") = n /\ CountTag(L, "D") = n
            /\ \A i \in 0..(n - 1) :
                 /\ L[i * stride + 1][1] = "A"
                 /\ L[i * stride + 1][5] = str((a.srcCol - 1) * n + 1 + i)
                 /\ L[i * stride + 2][1] = "D"
                 /\ L[i * stride + 2][5] = str((a.dstCol - 1) * n + 1 + i)
                 /\ a.wash => L[i * stride + 3] = <<"W", "">>
            /\ (plateformat = 96 /\ a.srcCol = 1 /\ a.dstCol = 1)
                 => /\ n = 8
                    /\ \A i \in 1..8 :
                         /\ L[(i - 1) * stride + 1][5] = str(i)
                         /\ L[(i - 1) * stride + 2][5] = str(i)

\* C12's case: column 2 to column 3 on a 384-well format assigned before
\* the call; the last pair addresses the positions 32 and 48.
C12_Witness ==
    /\ last.op = "transferColumn" /\ last.ok /\ ~last.wash
    /\ plateformat = 384
    /\ last.args.srcCol = 2 /\ last.args.dstCol = 3
    /\ Len(Appended) = 32
    /\ Appended[31][5] = "32" /\ Appended[32][5] = "48"

\* C13: transferColumn returns the number of aspirate/dispense pairs it
\* has written.
C13_ReturnsPairCount ==
    (last.op = "transferColumn" /\ last.ok)
        => ret = <<CountTag(Appended, "A")>>

\* What transferColumn returns: the index of the last row, rows - 1.
ReturnsLastRowIndex ==
    (last.op = "transferColumn" /\ last.ok)
        => ret = <<rows - 1>> /\ CountTag(Appended, "A") = rows

\* the number a decimal field stands for, among 0..hi
Num(field, hi) == CHOOSE x \in 0..hi : str(x) = field

RECURSIVE SumVolumes(_, _, _)
\* the sum of the volumes of the lines with the given tag
SumVolumes(lines, tag, hi) ==
    IF lines = <<>> THEN 0
    ELSE (IF lines[1][1] = tag THEN Num(lines[1][7], hi) ELSE 0)
         + SumVolumes(Tail(lines), tag, hi)

\* the D lines of a sequence of lines, in order
DLines(lines) == LET IsD(l) == l[1] = "D" IN SelectSeq(lines, IsD)

\* C14: for volume > 0, tipVolume >= volume and destinations d1..dk (both
\* racks named), a multidiswithflush call that has returned has written D
\* lines addressing d1..dk in the caller's order, each once and with the
\* volume `volume`; every A line's volume is a positive multiple m * volume
\* not above tipVolume and the A line is followed by exactly m D lines; the
\* aspirated volumes sum to k * volume; and whatever the racks, the
\* assertion on the destinations left never fails.
C14_MultiDispense ==
    (last.op = "multidiswithflush" /\ last.args.tipVolume >= last.args.volume) =>
        /\ last.exc # "AssertionError"
        /\ (~mw.active /\ last.args.srcLabel # "" /\ last.args.dstLabel # "") =>
             LET a == last.args
                 k == Len(a.dstPos)
                 L == Appended
                 Ds == DLines(L)
             IN  /\ last.ok
                 /\ PrefixKept
                 /\ Len(Ds) = k
                 /\ \A j \in 1..k : Ds[j][5] = str(a.dstPos[j]) /\ Ds[j][7] = str(a.volume)
                 /\ \A i \in DOMAIN L :
                      L[i][1] = "A" =>
                        \E m \in 1..(a.tipVolume \div a.volume) :
                            /\ L[i][7] = str(m * a.volume)
                            /\ i + m <= Len(L)
                            /\ \A j \in 1..m : L[i + j][1] = "D"
                            /\ (i + m + 1 <= Len(L)) => L[i + m + 1][1] # "D"
                 /\ (k > 0) => L[1][1] = "A"
                 /\ SumVolumes(L, "A", k * a.volume) = k * a.volume

\* C14's case: three destinations, a tip that holds two doses: two are
\* dispensed from the first aspirate and one from the second.
C14_Witness ==
    /\ last.op = "multidiswithflush" /\ last.ok /\ ~mw.active
    /\ last.args.volume = 1 /\ last.args.tipVolume = 2
    /\ Len(last.args.dstPos) = 3
    /\ Tags(out) = <<"A", "D", "D", "F", "A", "D", "W">>
    /\ [i \in 1..3 |-> DLines(out)[i][5]] = <<"4", "7", "3">>

\* C15: plateformat is always one of the six formats, rows is its table
\* value and rows * columns = plateformat; assigning a listed value sets
\* it, assigning an unlisted value raises WorklistException and leaves
\* plateformat, rows and columns as they were.
C15_PlateformatConsistent ==
    /\ plateformat \in ALLOWED_PLATES
    /\ rows = PLATE_ROWS[plateformat]
    /\ rows * columns = plateformat
    /\ last.op = "plateformat" =>
         IF last.args.wells \in ALLOWED_PLATES
         THEN last.ok /\ plateformat = last.args.wells
         ELSE /\ ~last.ok
              /\ last.exc = "WorklistException"
              /\ Format(plateformat, rows, columns) = last.args.old

\* C15's case: a valid assignment followed by an invalid one.
C15_Witness ==
    /\ calls = 2
    /\ last.op = "plateformat" /\ ~last.ok
    /\ last.args.wells = 48
    /\ plateformat = 384 /\ rows = 16 /\ columns = 24

\* the text write receives from the last write or comment call
TextGiven ==
    IF last.op = "write" THEN last.args.line
    ELSE <<"C", SEP, " ">> \o last.args.comment

\* C16: write(text) and comment(text) append exactly one line: the text
\* without its line feeds and carriage returns, ended by one line break.
C16_OneLinePerText ==
    (last.op \in {"write", "comment"}) =>
        /\ PrefixKept
        /\ Len(Appended) = 1
        /\ Appended = TextLines(replace(replace(TextGiven, LF), CR) \o <<LF>>)

\* What write does: the text goes out as given, so it adds one line more
\* than it holds line feeds.
TextWrittenAsGiven ==
    (last.op \in {"write", "comment"}) =>
        /\ PrefixKept
        /\ Appended = TextLines(TextGiven \o <<LF>>)
        /\ Len(Appended) = 1 + Cardinality({i \in DOMAIN TextGiven : TextGiven[i] = LF})

\* C17: the buffer is an append-only log in call order: every step of
\* every command keeps the buffer it found as a prefix of the buffer it
\* leaves, and so does every call as a whole; plateformat assignments and
\* close() leave the buffer as it is.
C17_AppendOnly ==
    /\ [][Len(out) <= Len(out') /\ SubSeq(out', 1, Len(out)) = out]_vars
    /\ [](PrefixKept /\ (last.op \in {"plateformat", "close"} => out = before))

\* C17's case: the three lines of a transfer, then a comment after them.
C17_Witness ==
    /\ calls = 2
    /\ last.op = "comment"
    /\ Tags(before) = <<"A", "D", "W">>
    /\ Len(out) = 4
    /\ SubSeq(out, 1, 3) = before
    /\ out[4] = <<"C", " note">>

\* C20: every iteration of the while loop of multidiswithflush strictly
\* decreases the total volume that remains, so that the call ends; for
\* every positive volume and tip volume, tipVolume < volume included.
C20_CycleDecreases ==
    [][(mw.active /\ mw'.active /\ mw'.cycles = mw.cycles + 1)
          => mw'.totalVolume < mw.totalVolume]_vars

\* What holds of the loop: it makes progress when the tip holds at least
\* one dose.
CycleDecreasesWhenTipHoldsADose ==
    [][(mw.active /\ mw'.active /\ mw'.cycles = mw.cycles + 1
          /\ mw.a.tipVolume >= mw.a.volume)
          => mw'.totalVolume < mw.totalVolume]_vars

\* With a tip smaller than one dose the loop aspirates nothing, dispenses
\* nothing and leaves the remaining volume as it is.
SmallTipStalls ==
    (mw.active /\ mw.a.tipVolume < mw.a.volume /\ mw.cycles > 0)
        => /\ mw.tipVolume = 0
           /\ mw.totalVolume = mw.a.volume * Len(mw.a.dstPos)
           /\ CountTag(Appended, "D") = 0
           /\ CountTag(Appended, "A") = mw.cycles

=============================================================================
